---- MODULE Spec2Model ----
(***************************************************************************)
(* A model of the bitmaps crate's Bitmap<Size> value type and its Iter.    *)
(*                                                                         *)
(* Bitmap<Size> wraps one value of Size::Store.  An unsigned integer word  *)
(* of w bits is represented by the set of the positions (0..w-1) of its 1  *)
(* bits, a bool by a BOOLEAN, and an array [u128; k] by a sequence of k    *)
(* words.  Option<usize> is a sequence of length at most one.              *)
(***************************************************************************)
EXTENDS Integers, Naturals, Sequences, FiniteSets, TLC

VARIABLES size, bitmap, iter, last, ghost, ighost

vars == <<size, bitmap, iter, last, ghost, ighost>>

(***************************************************************************)
(* Bounds of the model.                                                    *)
(***************************************************************************)
\* Declared sizes 1..MaxSize are explored (bool and u8 stores).
MaxSize == 3
\* Raw storage values handed to from_value carry up to PadBits bits at
\* positions >= N.
PadBits == 1

(***************************************************************************)
(* Program constants.                                                      *)
(***************************************************************************)
\* Width of one array element (u128).
WordBits == 128
\* The smallest declared size stored as an array ([u128; 2], U256).
ArraySize == 256

Sizes == (1..MaxSize) \cup {ArraySize}

(***************************************************************************)
(* Size::Store: the storage representation selected by the declared size.  *)
(***************************************************************************)
IsBool(N) == N = 1

IsArray(N) == N > WordBits

\* Number of bits of the storage type selected for declared size N.
StoreBits(N) ==
    IF N = 1 THEN 1
    ELSE IF N <= 8 THEN 8
    ELSE IF N <= 16 THEN 16
    ELSE IF N <= 32 THEN 32
    ELSE IF N <= 64 THEN 64
    ELSE IF N <= WordBits THEN WordBits
    ELSE WordBits * ((N + WordBits - 1) \div WordBits)

\* Size::Store::default(): false, 0, or [0; k].
StoreDefault(N) ==
    IF IsBool(N) THEN FALSE
    ELSE IF IsArray(N) THEN [k \in 1..(StoreBits(N) \div WordBits) |-> {}]
    ELSE {}

None == << >>

Some(i) == << i >>

\* u128::trailing_zeros of a non-zero word.
TrailingZeros(w) == CHOOSE x \in w : \A y \in w : x <= y

\* u128::count_ones.
CountOnes(w) == Cardinality(w)

Panic == [panic |-> TRUE, val |-> FALSE]

Ok(b) == [panic |-> FALSE, val |-> b]

\* Bits::get: the bit at index; an index >= N is an out-of-bounds failure.
BitsGet(N, bits, index) ==
    IF index >= N THEN Panic
    ELSE IF IsBool(N) THEN Ok(bits)
    ELSE IF IsArray(N)
         THEN Ok((index % WordBits) \in bits[(index \div WordBits) + 1])
    ELSE Ok(index \in bits)

\* One word with the bit at offset set or cleared.
WordWith(w, offset, value) ==
    IF value THEN w \cup {offset} ELSE w \ {offset}

\* Bits::set: writes one bit and returns the previous value; an index >= N
\* is an out-of-bounds failure that leaves the storage alone.
BitsSet(N, bits, index, value) ==
    IF index >= N THEN [panic |-> TRUE, prev |-> FALSE, bits |-> bits]
    ELSE IF IsBool(N) THEN [panic |-> FALSE, prev |-> bits, bits |-> value]
    ELSE IF IsArray(N)
         THEN LET k == (index \div WordBits) + 1
                  o == index % WordBits
              IN  [panic |-> FALSE, prev |-> o \in bits[k],
                   bits |-> [bits EXCEPT ![k] = WordWith(@, o, value)]]
    ELSE [panic |-> FALSE, prev |-> index \in bits,
          bits |-> WordWith(bits, index, value)]

RECURSIVE ArrayLen(_, _)
\* Sum of the population counts of the elements k..Len(bits).
ArrayLen(bits, k) ==
    IF k > Len(bits) THEN 0 ELSE CountOnes(bits[k]) + ArrayLen(bits, k + 1)

\* Bits::len: the population count of the stored value.
BitsLen(N, bits) ==
    IF IsBool(N) THEN (IF bits THEN 1 ELSE 0)
    ELSE IF IsArray(N) THEN ArrayLen(bits, 1)
    ELSE CountOnes(bits)

RECURSIVE ArrayFirstIndex(_, _)
\* Lowest set bit of the first non-zero element at or after element k.
ArrayFirstIndex(bits, k) ==
    IF k > Len(bits) THEN None
    ELSE IF bits[k] # {}
         THEN Some((k - 1) * WordBits + TrailingZeros(bits[k]))
    ELSE ArrayFirstIndex(bits, k + 1)

\* Bits::first_index: the lowest set bit of the stored value.
BitsFirstIndex(N, bits) ==
    IF IsBool(N) THEN (IF bits THEN Some(0) ELSE None)
    ELSE IF IsArray(N) THEN ArrayFirstIndex(bits, 1)
    ELSE IF bits = {} THEN None
    ELSE Some(TrailingZeros(bits))

(***************************************************************************)
(* Bitmap<Size>.                                                           *)
(***************************************************************************)
default(N) == [data |-> StoreDefault(N)]

new(N) == default(N)

\* from_value that clears the bits at positions >= N.
from_value_masked(N, data) ==
    [data |-> IF IsBool(N) \/ IsArray(N) THEN data
              ELSE {p \in data : p < N}]

from_value(N, data) == [data |-> data]

into_value(N, self) == self.data

from(N, data) == [data |-> data]

into(N, self) == self.data

eq(self, other) == self.data = other.data

\* len that returns the declared size.
len_capacity(N, self) == N

len(N, self) == BitsLen(N, self.data)

\* get that answers false for an index >= N.
get_silent(N, self, index) ==
    IF index >= N THEN Ok(FALSE) ELSE BitsGet(N, self.data, index)

get(N, self, index) == BitsGet(N, self.data, index)

\* set that writes to a copy of the storage.
set_on_copy(N, self, index, value) ==
    LET r == BitsSet(N, self.data, index, value)
    IN  [panic |-> r.panic, prev |-> r.prev, self |-> self]

\* set that returns the value written.
set_returns_value(N, self, index, value) ==
    LET r == BitsSet(N, self.data, index, value)
    IN  [panic |-> r.panic, prev |-> (~r.panic /\ value),
         self |-> [data |-> r.bits]]

set(N, self, index, value) ==
    LET r == BitsSet(N, self.data, index, value)
    IN  [panic |-> r.panic, prev |-> r.prev, self |-> [data |-> r.bits]]

first_index(N, self) == BitsFirstIndex(N, self.data)

\* is_empty that tests is_some().
is_empty_inverted(N, self) == first_index(N, self) # None

is_empty(N, self) == first_index(N, self) = None

\* into_iter that starts at position 1.
into_iter_from_one(N, self) == [index |-> 1, data |-> self.data]

into_iter(N, self) == [index |-> 0, data |-> self.data]

\* The position at which a scan that starts at index stops: the first
\* position from index on whose bit is 1, or N when there is none.  It is
\* where the chain of `self.index += 1; self.next()` calls over 0 bits ends.
ScanStop(N, data, index) ==
    CHOOSE j \in index..N :
        /\ j < N => BitsGet(N, data, j).val
        /\ \A k \in index..(j - 1) : ~BitsGet(N, data, k).val

\* next that yields the position after the increment.
next_yields_after(N, self) ==
    IF self.index >= N THEN [self |-> self, item |-> None]
    ELSE LET at == [self EXCEPT !.index = ScanStop(N, self.data, self.index)]
         IN  IF at.index >= N THEN [self |-> at, item |-> None]
             ELSE LET s == [at EXCEPT !.index = @ + 1]
                  IN  [self |-> s, item |-> Some(s.index)]

\* next that does not increment the position when it yields.
next_no_advance(N, self) ==
    IF self.index >= N THEN [self |-> self, item |-> None]
    ELSE LET at == [self EXCEPT !.index = ScanStop(N, self.data, self.index)]
         IN  IF at.index >= N THEN [self |-> at, item |-> None]
             ELSE [self |-> at, item |-> Some(at.index)]

\* Iter::next: the iterator after the call and the item it returns.  The
\* recursive calls made on 0 bits are taken in one step by ScanStop.
next(N, self) ==
    IF self.index >= N THEN [self |-> self, item |-> None]
    ELSE LET at == [self EXCEPT !.index = ScanStop(N, self.data, self.index)]
         IN  IF at.index >= N THEN [self |-> at, item |-> None]
             ELSE LET s == [at EXCEPT !.index = @ + 1]
                  IN  [self |-> s, item |-> Some(s.index - 1)]

RECURSIVE collect(_, _)
\* The items of repeated next() calls up to the first none.
collect(N, self) ==
    LET r == next(N, self)
    IN  IF r.item = None THEN << >> ELSE r.item \o collect(N, r.self)

(***************************************************************************)
(* Inputs.                                                                 *)
(***************************************************************************)
\* In-range indices the operations are called with: every index of a small
\* size, the first and last bit of every element of an array.
InIdx(N) ==
    IF IsArray(N)
    THEN {k * WordBits + o : k \in 0..((N \div WordBits) - 1),
                             o \in {0, WordBits - 1}}
    ELSE 0..(N - 1)

\* Out-of-range indices: the first one, and the first one past the storage.
OutIdx(N) == {N, StoreBits(N)}

\* Raw storage values: any bits below N, and up to PadBits padding bits.
RawValues(N) ==
    IF IsBool(N) THEN BOOLEAN
    ELSE IF IsArray(N)
         THEN [1..(N \div WordBits) -> SUBSET {0, WordBits - 1}]
    ELSE LET top == IF N + PadBits <= StoreBits(N)
                    THEN N + PadBits ELSE StoreBits(N)
         IN  SUBSET (0..(top - 1))

\* The indices below N whose bit is 1 in a raw storage value.
RawTrue(N, v) ==
    IF IsBool(N) THEN (IF v THEN {0} ELSE {})
    ELSE IF IsArray(N)
         THEN {i \in InIdx(N) : (i % WordBits) \in v[(i \div WordBits) + 1]}
    ELSE {i \in 0..(N - 1) : i \in v}

(***************************************************************************)
(* The record of the last call: operation, arguments and results.          *)
(***************************************************************************)
Call(op, N) ==
    [op |-> op, index |-> 0, value |-> FALSE, panic |-> FALSE,
     rbool |-> FALSE, rnum |-> 0, ropt |-> None, rstore |-> StoreDefault(N)]

\* What is known of a bitmap just constructed: whether new() built it
\* and the indices below N that hold true.
Built(fromNew, S) == [fromNew |-> fromNew, S |-> S, cleared |-> FALSE]

NoIter == [live |-> FALSE, fromNew |-> FALSE, S |-> {}, yielded |-> << >>,
           calls |-> 0, exhausted |-> FALSE]

Init ==
    /\ size \in Sizes
    /\ bitmap = new(size)
    /\ iter = into_iter(size, new(size))
    /\ last = Call("new", size)
    /\ ghost = Built(TRUE, {})
    /\ ighost = NoIter

New ==
    /\ bitmap' = new(size)
    /\ last' = Call("new", size)
    /\ ghost' = Built(TRUE, {})
    /\ UNCHANGED <<size, iter, ighost>>

FromValue ==
    \E v \in RawValues(size) :
        /\ bitmap' = from_value(size, v)
        /\ last' = [Call("from_value", size) EXCEPT !.rstore = v]
        /\ ghost' = Built(FALSE, RawTrue(size, v))
        /\ UNCHANGED <<size, iter, ighost>>

IntoValue ==
    /\ last' = [Call("into_value", size) EXCEPT
                    !.rstore = into_value(size, bitmap)]
    /\ UNCHANGED <<size, bitmap, iter, ghost, ighost>>

FromArray ==
    /\ IsArray(size)
    /\ \E v \in RawValues(size) :
        /\ bitmap' = from(size, v)
        /\ last' = [Call("from", size) EXCEPT !.rstore = v]
        /\ ghost' = Built(FALSE, RawTrue(size, v))
    /\ UNCHANGED <<size, iter, ighost>>

IntoArray ==
    /\ IsArray(size)
    /\ last' = [Call("into", size) EXCEPT !.rstore = into(size, bitmap)]
    /\ UNCHANGED <<size, bitmap, iter, ghost, ighost>>

LenCall ==
    /\ last' = [Call("len", size) EXCEPT !.rnum = len(size, bitmap)]
    /\ UNCHANGED <<size, bitmap, iter, ghost, ighost>>

IsEmpty ==
    /\ last' = [Call("is_empty", size) EXCEPT
                    !.rbool = is_empty(size, bitmap)]
    /\ UNCHANGED <<size, bitmap, iter, ghost, ighost>>

FirstIndex ==
    /\ last' = [Call("first_index", size) EXCEPT
                    !.ropt = first_index(size, bitmap)]
    /\ UNCHANGED <<size, bitmap, iter, ghost, ighost>>

Get ==
    \E i \in InIdx(size) \cup OutIdx(size) :
        LET r == get(size, bitmap, i)
        IN  /\ last' = [Call("get", size) EXCEPT
                            !.index = i, !.panic = r.panic, !.rbool = r.val]
            /\ UNCHANGED <<size, bitmap, iter, ghost, ighost>>

Set ==
    \E i \in InIdx(size) \cup OutIdx(size), v \in BOOLEAN :
        LET r == set(size, bitmap, i, v)
        IN  /\ bitmap' = r.self
            /\ last' = [Call("set", size) EXCEPT
                            !.index = i, !.value = v,
                            !.panic = r.panic, !.rbool = r.prev]
            /\ ghost' = IF i < size
                        THEN [ghost EXCEPT
                                 !.S = IF v THEN @ \cup {i} ELSE @ \ {i},
                                 !.cleared = @ \/ (~v /\ i \in ghost.S)]
                        ELSE ghost
            /\ UNCHANGED <<size, iter, ighost>>

IntoIter ==
    /\ iter' = into_iter(size, bitmap)
    /\ last' = Call("into_iter", size)
    /\ ighost' = [live |-> TRUE, fromNew |-> ghost.fromNew, S |-> ghost.S,
                  yielded |-> << >>, calls |-> 0, exhausted |-> FALSE]
    /\ UNCHANGED <<size, bitmap, ghost>>

IterNext ==
    /\ ighost.live
    /\ LET r == next(size, iter)
       IN  /\ iter' = r.self
           /\ last' = [Call("next", size) EXCEPT !.ropt = r.item]
           /\ ighost' = [ighost EXCEPT
                            !.yielded = @ \o r.item,
                            !.calls = IF iter.index < size THEN @ + 1 ELSE @,
                            !.exhausted = @ \/ (r.item = None)]
    /\ UNCHANGED <<size, bitmap, ghost>>

Next ==
    \/ New
    \/ FromValue
    \/ IntoValue
    \/ FromArray
    \/ IntoArray
    \/ LenCall
    \/ IsEmpty
    \/ FirstIndex
    \/ Get
    \/ Set

Spec == Init /\ [][Next]_vars

(***************************************************************************)
(* Iteration: a bitmap built by new() or from_value(v), modified by set,   *)
(* copied into iterators that are stepped by next().                       *)
(***************************************************************************)
InitIter ==
    /\ size \in Sizes
    /\ \/ /\ bitmap = new(size)
          /\ last = Call("new", size)
          /\ ghost = Built(TRUE, {})
       \/ \E v \in RawValues(size) :
             /\ bitmap = from_value(size, v)
             /\ last = [Call("from_value", size) EXCEPT !.rstore = v]
             /\ ghost = Built(FALSE, RawTrue(size, v))
    /\ iter = into_iter(size, new(size))
    /\ ighost = NoIter

NextIter ==
    \/ Set
    \/ IntoIter
    \/ IterNext

SpecIter == InitIter /\ [][NextIter]_vars

(***************************************************************************)
(* Vocabulary of the properties.                                           *)
(***************************************************************************)
\* The least element of a non-empty set of indices.
Lowest(S) == CHOOSE x \in S : \A y \in S : x <= y

RECURSIVE Ascending(_)
\* The elements of a finite set of indices in strictly ascending order.
Ascending(S) ==
    IF S = {} THEN << >>
    ELSE << Lowest(S) >> \o Ascending(S \ {Lowest(S)})

\* The storage bits at positions >= N (an integer store wider than N).
PaddingBits(N, data) ==
    IF IsBool(N) \/ IsArray(N) THEN {} ELSE {p \in data : p >= N}

\* The indices below N at which get returns true.
TrueIdx(N, self) == {i \in 0..(N - 1) : get(N, self, i) = Ok(TRUE)}

(***************************************************************************)
(* C1: on a bitmap built by new() and set calls, get(i) is true exactly    *)
(* for the indices i < N in S, the set of indices that were set true (and  *)
(* not set false afterwards); a get call returns that value.               *)
(***************************************************************************)
C1_GetMatchesSet ==
    ghost.fromNew =>
        /\ \A i \in 0..(size - 1) : get(size, bitmap, i) = Ok(i \in ghost.S)
        /\ (last.op = "get" /\ last.index < size) =>
               (~last.panic /\ last.rbool = (last.index \in ghost.S))

C1_Witness ==
    /\ ghost.fromNew
    /\ Cardinality(ghost.S) >= 2
    /\ \E j \in 0..(size - 1) : j \notin ghost.S
    /\ last.op = "get" /\ last.rbool

(***************************************************************************)
(* C2: the items produced by next() on the iterator of a bitmap built by   *)
(* new() and set calls are the elements of S below the iterator's          *)
(* position in strictly ascending order, each once; when next() has        *)
(* returned none they are all of S.                                        *)
(***************************************************************************)
C2_IterAscending ==
    (ighost.live /\ ighost.fromNew) =>
        /\ ighost.yielded = Ascending({s \in ighost.S : s < iter.index})
        /\ ighost.exhausted => ighost.yielded = Ascending(ighost.S)
        /\ collect(size, into_iter(size, [data |-> iter.data]))
               = Ascending(ighost.S)

C2_Witness ==
    /\ ighost.live /\ ighost.fromNew /\ ighost.exhausted
    /\ Len(ighost.yielded) >= 2
    /\ ighost.yielded[1] > 0
    /\ last.op = "next" /\ last.ropt = None

(***************************************************************************)
(* C3: set(i, v) with i < N returns the value get(i) returned immediately  *)
(* before the call.                                                        *)
(***************************************************************************)
C3_SetReturnsPrevious ==
    [][(last'.op = "set" /\ last'.index < size) =>
           /\ ~last'.panic
           /\ Ok(last'.rbool) = get(size, bitmap, last'.index)]_vars

\* Set then clear of one index of an empty bitmap: the clear returned true
\* and the bitmap is empty again.
C3_Witness ==
    /\ ghost.fromNew
    /\ last.op = "set" /\ ~last.panic /\ ~last.value /\ last.rbool
    /\ eq(bitmap, new(size))
    /\ size > 1

C5_PaddingNeverSet ==
    /\ PaddingBits(size, bitmap.data) = {}
    /\ len(size, bitmap) = Cardinality(TrueIdx(size, bitmap))
    /\ \A i \in 0..StoreBits(size) :
           first_index(size, bitmap) = Some(i) => i < size
    /\ Len(collect(size, into_iter(size, bitmap))) = len(size, bitmap)

(***************************************************************************)
(* C6: on a bitmap built by new() and set calls, len() is the number of    *)
(* indices that currently hold true.                                       *)
(***************************************************************************)
C6_LenCountsSet ==
    ghost.fromNew =>
        /\ len(size, bitmap) = Cardinality(ghost.S)
        /\ last.op = "len" => last.rnum = Cardinality(ghost.S)

C6_Witness ==
    /\ ghost.fromNew
    /\ last.op = "len" /\ last.rnum >= 2
    /\ last.rnum < size

(***************************************************************************)
(* C7: on a bitmap built by new() and set calls, is_empty() is true        *)
(* exactly when no index holds true, and it agrees with len() = 0 and      *)
(* with first_index() being none.                                          *)
(***************************************************************************)
C7_IsEmpty ==
    ghost.fromNew =>
        /\ is_empty(size, bitmap) = (ghost.S = {})
        /\ is_empty(size, bitmap) = (len(size, bitmap) = 0)
        /\ is_empty(size, bitmap) = (first_index(size, bitmap) = None)
        /\ last.op = "is_empty" => last.rbool = (ghost.S = {})

\* is_empty() is true of a bitmap whose true bits were all cleared by set.
C7_Witness ==
    /\ ghost.fromNew /\ ghost.cleared
    /\ last.op = "is_empty" /\ last.rbool
    /\ bitmap = new(size)

(***************************************************************************)
(* C8: from_value and into_value are lossless inverses: rebuilding a       *)
(* bitmap from its into_value() gives an equal bitmap, and into_value()    *)
(* of from_value(v) is v, padding bits included.                           *)
(***************************************************************************)
C8_RoundTrip ==
    /\ eq(from_value(size, into_value(size, bitmap)), bitmap)
    /\ last.op = "into_value" => eq(from_value(size, last.rstore), bitmap)
    /\ last.op = "from_value" => into_value(size, bitmap) = last.rstore
    /\ \A v \in RawValues(size) : into_value(size, from_value(size, v)) = v

C8_Witness ==
    /\ last.op = "from_value"
    /\ PaddingBits(size, last.rstore) # {}
    /\ into_value(size, bitmap) = last.rstore

(***************************************************************************)
(* C9: on a bitmap built by new() and set calls, first_index() is the      *)
(* lowest index i < N with get(i) true, or none when there is none; when   *)
(* it is some index, the bitmap's iterator yields that index first.        *)
(***************************************************************************)
C9_FirstIndex ==
    ghost.fromNew =>
        LET f == first_index(size, bitmap)
            t == TrueIdx(size, bitmap)
        IN  /\ f = IF t = {} THEN None ELSE Some(Lowest(t))
            /\ f # None => next(size, into_iter(size, bitmap)).item = f
            /\ last.op = "first_index" => last.ropt = f

C9_Witness ==
    /\ ghost.fromNew
    /\ last.op = "first_index" /\ last.ropt # None
    /\ last.ropt[1] > 0
    /\ Cardinality(ghost.S) >= 2

(***************************************************************************)
(* C10: the iterator's position p starts at 0, never decreases and never   *)
(* exceeds N; a next() call at p < N advances p by at least one, so at     *)
(* most N calls are made before the iterator is exhausted; a next() call   *)
(* at p >= N returns none and changes nothing; next() changes neither the  *)
(* iterator's data nor the source bitmap.                                  *)
(***************************************************************************)
C10_IterPosition ==
    /\ iter.index <= size
    /\ ighost.calls <= iter.index
    /\ ighost.exhausted => iter.index >= size
    /\ (last.op = "into_iter") => iter.index = 0

C10_IterStep ==
    [][(last'.op = "next") =>
           /\ iter'.index >= iter.index
           /\ iter'.index <= size
           /\ iter.index < size => iter'.index > iter.index
           /\ iter.index >= size => (last'.ropt = None /\ iter' = iter)
           /\ iter'.data = iter.data
           /\ bitmap' = bitmap]_vars

C10_IterMachine == []C10_IterPosition /\ C10_IterStep

\* An exhausted iterator that yielded items, stepped again after the source
\* bitmap was modified.
C10_Witness ==
    /\ ighost.live /\ ighost.exhausted
    /\ Len(ighost.yielded) >= 1
    /\ last.op = "next" /\ last.ropt = None
    /\ bitmap.data # iter.data

====
